---- MODULE Spec2Model ----
(***************************************************************************)
(* Tic-tac-toe board and its two game-tree searches (CR_22035.py): the     *)
(* TicTacToe class, minimax, alphabeta and get_best_move.                   *)
(*                                                                         *)
(* The board is the list self.board, a function 0..8 -> marks.  A search   *)
(* receives the board by reference, mutates it and undoes the mutation, so *)
(* every search operator returns, next to its value, the board it leaves   *)
(* behind and the number of invocations it made.                           *)
(***************************************************************************)
EXTENDS Integers, Sequences, FiniteSets

(* ------------------------------ bounds --------------------------------- *)

\* Spec runs minimax, alphabeta and get_best_move on the positions of the
\* alternating play that have at most this many empty cells (GameSpec searches
\* every position of its games, the empty board included).
MaxEmpty == 3

\* The depth argument handed to minimax and alphabeta ranges over 0..MaxDepth.
MaxDepth == 1

\* In GameSpec the AI asks for plain minimax on positions with at most this
\* many empty cells, and for alphabeta on every position.
MaxPlainEmpty == 6

(* ----------------------------- constants ------------------------------- *)

EMPTY == " "

HUMAN == "O"

AI == "X"

\* math.inf: larger than every score a search can return.
Inf == 1000

\* Python's None, the value of best_move when no move was kept.
None == -1

Players == {HUMAN, AI}

Marks == {EMPTY, HUMAN, AI}

Cells == 0..8

Boards == [Cells -> Marks]

\* TicTacToe.__init__ and TicTacToe.reset: [EMPTY] * 9
EmptyBoard == [i \in Cells |-> EMPTY]

Max(a, b) == IF a >= b THEN a ELSE b

Min(a, b) == IF a <= b THEN a ELSE b

(* --------------------------- TicTacToe class --------------------------- *)

\* [i for i, cell in enumerate(self.board) if cell == EMPTY]: ascending order.
available_moves(b) ==
  SelectSeq(<<0, 1, 2, 3, 4, 5, 6, 7, 8>>, LAMBDA i : b[i] = EMPTY)

\* A make_move that overwrites an occupied cell.
make_move_overwrite(b, position, player) ==
  [board |-> [b EXCEPT ![position] = player], ret |-> TRUE]

\* TicTacToe.make_move: the board it leaves and the bool it returns.
make_move(b, position, player) ==
  IF b[position] = EMPTY
  THEN [board |-> [b EXCEPT ![position] = player], ret |-> TRUE]
  ELSE [board |-> b, ret |-> FALSE]

\* A search that forgets the undo.
undo_move_skipped(b, move) == b

\* board.board[move] = EMPTY, the undo after every exploratory make_move.
undo_move(b, move) == [b EXCEPT ![move] = EMPTY]

wins ==
  << <<0, 1, 2>>, <<3, 4, 5>>, <<6, 7, 8>>,
     <<0, 3, 6>>, <<1, 4, 7>>, <<2, 5, 8>>,
     <<0, 4, 8>>, <<2, 4, 6>> >>

is_winner(b, player) ==
  \E k \in 1..Len(wins) : \A j \in 1..3 : b[wins[k][j]] = player

is_draw(b) ==
  (\A i \in Cells : b[i] # EMPTY) /\ ~is_winner(b, HUMAN) /\ ~is_winner(b, AI)

game_over(b) == is_winner(b, HUMAN) \/ is_winner(b, AI) \/ is_draw(b)

(* ------------------------------- minimax ------------------------------- *)

\* A terminal test whose values ignore the depth.
minimax_terminal_flat(b, depth) ==
  IF is_winner(b, AI) THEN <<10>>
  ELSE IF is_winner(b, HUMAN) THEN <<-10>>
  ELSE IF is_draw(b) THEN <<0>>
  ELSE <<>>

\* The terminal test at the head of minimax: <<value>> at a terminal board,
\* <<>> when the search goes on.
minimax_terminal(b, depth) ==
  IF is_winner(b, AI) THEN <<10 - depth>>
  ELSE IF is_winner(b, HUMAN) THEN <<depth - 10>>
  ELSE IF is_draw(b) THEN <<0>>
  ELSE <<>>

\* The state of one for-loop of minimax: the board, the moves still to try,
\* the extremum so far and the invocations counted so far.
MinimaxFrames ==
  [board : Boards, depth : Int, moves : Seq(Cells), best : Int, calls : Nat]

\* What a call hands back once its loop has ended.
MinimaxReturn(f) == [val |-> f.best, board |-> f.board, calls |-> f.calls]

\* The rest of one iteration of the maximizing loop, after the recursive call
\* on the first pending move has returned r: undo the move, best = max(score, best).
minimax_max_step(f, r) ==
  [f EXCEPT !.board = undo_move(r.board, Head(f.moves)),
            !.moves = Tail(f.moves),
            !.best = Max(r.val, f.best),
            !.calls = f.calls + r.calls]

\* A minimizing loop that keeps the maximum.
minimax_min_step_as_max(f, r) ==
  [f EXCEPT !.board = undo_move(r.board, Head(f.moves)),
            !.moves = Tail(f.moves),
            !.best = Max(r.val, f.best),
            !.calls = f.calls + r.calls]

\* The same for the minimizing loop: best = min(score, best).
minimax_min_step(f, r) ==
  [f EXCEPT !.board = undo_move(r.board, Head(f.moves)),
            !.moves = Tail(f.moves),
            !.best = Min(r.val, f.best),
            !.calls = f.calls + r.calls]

RECURSIVE minimax_max(_), minimax_min(_)

minimax[b \in Boards, depth \in Int, is_maximizing \in BOOLEAN] ==
  LET t == minimax_terminal(b, depth)
  IN IF t # <<>> THEN [val |-> t[1], board |-> b, calls |-> 1]
     ELSE IF is_maximizing
     THEN minimax_max([board |-> b, depth |-> depth, moves |-> available_moves(b),
                       best |-> -Inf, calls |-> 1])
     ELSE minimax_min([board |-> b, depth |-> depth, moves |-> available_moves(b),
                       best |-> Inf, calls |-> 1])

\* for move in board.available_moves(), maximizing branch
minimax_max_for[f \in MinimaxFrames] ==
  IF f.moves = <<>> THEN MinimaxReturn(f)
  ELSE minimax_max_for[
         minimax_max_step(f, minimax[make_move(f.board, Head(f.moves), AI).board,
                                     f.depth + 1, FALSE])]

\* for move in board.available_moves(), minimizing branch
minimax_min_for[f \in MinimaxFrames] ==
  IF f.moves = <<>> THEN MinimaxReturn(f)
  ELSE minimax_min_for[
         minimax_min_step(f, minimax[make_move(f.board, Head(f.moves), HUMAN).board,
                                     f.depth + 1, TRUE])]

minimax_max(f) == minimax_max_for[f]

minimax_min(f) == minimax_min_for[f]

(* ------------------------------ alphabeta ------------------------------ *)

\* A terminal test that misses the Human win.
alphabeta_terminal_no_human(b, depth) ==
  IF is_winner(b, AI) THEN <<10 - depth>>
  ELSE IF is_draw(b) THEN <<0>>
  ELSE <<>>

\* The terminal test at the head of alphabeta.
alphabeta_terminal(b, depth) ==
  IF is_winner(b, AI) THEN <<10 - depth>>
  ELSE IF is_winner(b, HUMAN) THEN <<depth - 10>>
  ELSE IF is_draw(b) THEN <<0>>
  ELSE <<>>

\* if beta <= alpha: break
prune(alpha, beta) == beta <= alpha

\* The state of one for-loop of alphabeta; broke says the loop was left by
\* break, cuts counts the breaks taken in the whole subtree.
AlphabetaFrames ==
  [board : Boards, depth : Int, alpha : Int, beta : Int, moves : Seq(Cells),
   best : Int, calls : Nat, cuts : Nat, broke : BOOLEAN]

AlphabetaReturn(f) ==
  [val |-> f.best, board |-> f.board, calls |-> f.calls, cuts |-> f.cuts]

\* A maximizing loop that tests the cutoff on the new score and breaks
\* before max_eval takes it.
alphabeta_max_step_break_first(f, r) ==
  [f EXCEPT !.board = undo_move(r.board, Head(f.moves)),
            !.moves = Tail(f.moves),
            !.best = IF prune(Max(f.alpha, r.val), f.beta) THEN @ ELSE Max(f.best, r.val),
            !.alpha = Max(f.alpha, r.val),
            !.calls = f.calls + r.calls,
            !.broke = prune(Max(f.alpha, r.val), f.beta),
            !.cuts = f.cuts + r.cuts
                     + (IF prune(Max(f.alpha, r.val), f.beta) THEN 1 ELSE 0)]

\* The rest of one iteration of the maximizing loop, after the recursive call
\* on the first pending move has returned r: undo the move, update max_eval
\* and alpha, then test the cutoff.
alphabeta_max_step(f, r) ==
  [f EXCEPT !.board = undo_move(r.board, Head(f.moves)),
            !.moves = Tail(f.moves),
            !.best = Max(f.best, r.val),
            !.alpha = Max(f.alpha, r.val),
            !.calls = f.calls + r.calls,
            !.broke = prune(Max(f.alpha, r.val), f.beta),
            !.cuts = f.cuts + r.cuts
                     + (IF prune(Max(f.alpha, r.val), f.beta) THEN 1 ELSE 0)]

\* A minimizing loop that keeps the maximum in min_eval.
alphabeta_min_step_as_max(f, r) ==
  [f EXCEPT !.board = undo_move(r.board, Head(f.moves)),
            !.moves = Tail(f.moves),
            !.best = Max(f.best, r.val),
            !.beta = Min(f.beta, r.val),
            !.calls = f.calls + r.calls,
            !.broke = prune(f.alpha, Min(f.beta, r.val)),
            !.cuts = f.cuts + r.cuts
                     + (IF prune(f.alpha, Min(f.beta, r.val)) THEN 1 ELSE 0)]

\* The same for the minimizing loop: min_eval and beta.
alphabeta_min_step(f, r) ==
  [f EXCEPT !.board = undo_move(r.board, Head(f.moves)),
            !.moves = Tail(f.moves),
            !.best = Min(f.best, r.val),
            !.beta = Min(f.beta, r.val),
            !.calls = f.calls + r.calls,
            !.broke = prune(f.alpha, Min(f.beta, r.val)),
            !.cuts = f.cuts + r.cuts
                     + (IF prune(f.alpha, Min(f.beta, r.val)) THEN 1 ELSE 0)]

RECURSIVE alphabeta_max(_), alphabeta_min(_)

alphabeta[b \in Boards, depth \in Int, alpha \in Int, beta \in Int, is_maximizing \in BOOLEAN] ==
  LET t == alphabeta_terminal(b, depth)
  IN IF t # <<>> THEN [val |-> t[1], board |-> b, calls |-> 1, cuts |-> 0]
     ELSE IF is_maximizing
     THEN alphabeta_max([board |-> b, depth |-> depth, alpha |-> alpha, beta |-> beta,
                         moves |-> available_moves(b), best |-> -Inf,
                         calls |-> 1, cuts |-> 0, broke |-> FALSE])
     ELSE alphabeta_min([board |-> b, depth |-> depth, alpha |-> alpha, beta |-> beta,
                         moves |-> available_moves(b), best |-> Inf,
                         calls |-> 1, cuts |-> 0, broke |-> FALSE])

\* for move in board.available_moves(), maximizing branch, left by break
alphabeta_max_for[f \in AlphabetaFrames] ==
  IF f.moves = <<>> \/ f.broke THEN AlphabetaReturn(f)
  ELSE alphabeta_max_for[
         alphabeta_max_step(f, alphabeta[make_move(f.board, Head(f.moves), AI).board,
                                         f.depth + 1, f.alpha, f.beta, FALSE])]

\* for move in board.available_moves(), minimizing branch, left by break
alphabeta_min_for[f \in AlphabetaFrames] ==
  IF f.moves = <<>> \/ f.broke THEN AlphabetaReturn(f)
  ELSE alphabeta_min_for[
         alphabeta_min_step(f, alphabeta[make_move(f.board, Head(f.moves), HUMAN).board,
                                         f.depth + 1, f.alpha, f.beta, TRUE])]

alphabeta_max(f) == alphabeta_max_for[f]

alphabeta_min(f) == alphabeta_min_for[f]

(* ---------------------------- get_best_move ---------------------------- *)

\* A comparison that lets a later move of equal score replace the kept one.
improves_or_ties(score, best_score) == score >= best_score

\* if score > best_score
improves(score, best_score) == score > best_score

\* A best_score that starts at 0.
initial_best_score_zero == Inf - Inf

\* best_score = -math.inf
initial_best_score == -Inf

\* The state of the for-loop of get_best_move; scores lists the score of every
\* move tried so far, in the order tried.
BestMoveFrames ==
  [board : Boards, use_ab_pruning : BOOLEAN, moves : Seq(Cells),
   best_score : Int, best_move : Cells \cup {None}, scores : Seq(Int), calls : Nat]

\* A top-level ply that counts itself as depth 1.
candidate_depth_one == 0 + 1

\* The depth get_best_move hands to the search of each candidate.
candidate_depth == 0

\* score of one candidate: the chosen search on the board after the move.
candidate[b \in Boards, use_ab_pruning \in BOOLEAN] ==
  IF use_ab_pruning THEN alphabeta[b, candidate_depth, -Inf, Inf, FALSE]
  ELSE minimax[b, candidate_depth, FALSE]

\* The rest of one iteration, after the search on the first pending move has
\* returned r: undo the move and keep it when its score improves on the best.
get_best_move_step(f, r) ==
  [f EXCEPT !.board = undo_move(r.board, Head(f.moves)),
            !.moves = Tail(f.moves),
            !.best_score = IF improves(r.val, f.best_score) THEN r.val ELSE @,
            !.best_move = IF improves(r.val, f.best_score) THEN Head(f.moves) ELSE @,
            !.scores = Append(f.scores, r.val),
            !.calls = f.calls + r.calls]

\* for move in board.available_moves(), then return best_move
get_best_move_for[f \in BestMoveFrames] ==
  IF f.moves = <<>>
  THEN [ret |-> f.best_move, board |-> f.board, scores |-> f.scores,
        calls |-> f.calls]
  ELSE get_best_move_for[
         get_best_move_step(f, candidate[make_move(f.board, Head(f.moves), AI).board,
                                         f.use_ab_pruning])]

get_best_move(b, use_ab_pruning) ==
  get_best_move_for[[board |-> b, use_ab_pruning |-> use_ab_pruning,
                     moves |-> available_moves(b),
                     best_score |-> initial_best_score, best_move |-> None,
                     scores |-> <<>>, calls |-> 0]]

(* ------------------------------- state --------------------------------- *)

VARIABLES
  board,   \* self.board of the game object
  turn,    \* the player whose move is next in the alternating play
  call     \* the most recent API call: its arguments, the board it was
           \* entered with and what it returned

vars == <<board, turn, call>>

Other(p) == IF p = AI THEN HUMAN ELSE AI

NoCall == [op |-> "none"]

Init ==
  /\ board = EmptyBoard
  /\ turn \in Players
  /\ call = NoCall

\* One legal move of the alternating play: the player to move marks an empty
\* cell of a board that is not over.
Play(position) ==
  /\ ~game_over(board)
  /\ board[position] = EMPTY
  /\ board' = make_move(board, position, turn).board
  /\ turn' = Other(turn)
  /\ call' = NoCall

\* minimax(board, depth, is_maximizing) on the current position.
Minimax(depth, is_maximizing) ==
  /\ call = NoCall
  /\ Len(available_moves(board)) <= MaxEmpty
  /\ LET r == minimax[board, depth, is_maximizing]
     IN /\ board' = r.board
        /\ call' = [op |-> "minimax", pre |-> board, depth |-> depth,
                    is_maximizing |-> is_maximizing, ret |-> r.val,
                    calls |-> r.calls]
  /\ UNCHANGED turn

\* alphabeta(board, depth, -inf, +inf, is_maximizing) with the arguments of the
\* minimax call that has just returned; the minimax call is kept as call.ref.
Alphabeta ==
  /\ call.op = "minimax"
  /\ LET r == alphabeta[board, call.depth, -Inf, Inf, call.is_maximizing]
     IN /\ board' = r.board
        /\ call' = [op |-> "alphabeta", pre |-> board, depth |-> call.depth,
                    is_maximizing |-> call.is_maximizing, ret |-> r.val,
                    calls |-> r.calls, cuts |-> r.cuts, ref |-> call]
  /\ UNCHANGED turn

\* get_best_move(board, use_ab_pruning) on the current position.
GetBestMove(use_ab_pruning) ==
  /\ call = NoCall
  /\ Len(available_moves(board)) <= MaxEmpty
  /\ LET r == get_best_move(board, use_ab_pruning)
     IN /\ board' = r.board
        /\ call' = [op |-> "get_best_move", pre |-> board,
                    use_ab_pruning |-> use_ab_pruning, ret |-> r.ret,
                    scores |-> r.scores, calls |-> r.calls]
  /\ UNCHANGED turn

Next ==
  \/ \E position \in Cells : Play(position)
  \/ \E depth \in 0..MaxDepth, is_maximizing \in BOOLEAN : Minimax(depth, is_maximizing)
  \/ Alphabeta
  \/ \E use_ab_pruning \in BOOLEAN : GetBestMove(use_ab_pruning)

Spec == Init /\ [][Next]_vars

(* ------------------------- the board on its own ------------------------ *)

\* make_move(position, player) with any cell and either mark, on any board.
MakeMove(position, player) ==
  /\ LET r == make_move(board, position, player)
     IN /\ board' = r.board
        /\ call' = [op |-> "make_move", pre |-> board, position |-> position,
                    player |-> player, ret |-> r.ret]
  /\ UNCHANGED turn

\* TicTacToe.reset
Reset ==
  /\ board' = EmptyBoard
  /\ call' = [op |-> "reset", pre |-> board]
  /\ UNCHANGED turn

BoardInit ==
  /\ board = EmptyBoard
  /\ turn = AI
  /\ call = NoCall

BoardNext ==
  \/ \E position \in Cells, player \in Players : MakeMove(position, player)
  \/ Reset

BoardSpec == BoardInit /\ [][BoardNext]_vars

(* ------------------------------ the game ------------------------------- *)

\* Human marks any empty cell.
HumanMove(position) ==
  /\ turn = HUMAN
  /\ Play(position)

\* The AI asks get_best_move for a cell and marks it with make_move; placed is
\* what make_move returned (FALSE when get_best_move handed back no move).
AIMove(use_ab_pruning) ==
  /\ turn = AI
  /\ ~game_over(board)
  /\ use_ab_pruning \/ Len(available_moves(board)) <= MaxPlainEmpty
  /\ LET g == get_best_move(board, use_ab_pruning)
         m == IF g.ret = None THEN [board |-> g.board, ret |-> FALSE]
              ELSE make_move(g.board, g.ret, AI)
     IN /\ board' = m.board
        /\ turn' = IF m.ret THEN HUMAN ELSE AI
        /\ call' = [op |-> "get_best_move", pre |-> board,
                    use_ab_pruning |-> use_ab_pruning, ret |-> g.ret,
                    scores |-> g.scores, calls |-> g.calls, placed |-> m.ret]

GameNext ==
  \/ \E position \in Cells : HumanMove(position)
  \/ \E use_ab_pruning \in BOOLEAN : AIMove(use_ab_pruning)

GameSpec == Init /\ [][GameNext]_vars

(* ------------------------------- claims -------------------------------- *)

Searches == {"minimax", "alphabeta", "get_best_move"}

Least(S) == CHOOSE x \in S : \A y \in S : x <= y

Greatest(S) == CHOOSE x \in S : \A y \in S : x >= y

\* The empty cells of b that complete a line of three for player p.
WinningCells(b, p) ==
  {i \in Cells : b[i] = EMPTY /\ is_winner([b EXCEPT ![i] = p], p)}

EmptyCells(b) == {i \in Cells : b[i] = EMPTY}

NobodyWon(b) == ~is_winner(b, AI) /\ ~is_winner(b, HUMAN)

\* The score a get_best_move call c computed for the empty cell move: scores
\* are listed in the order of the moves tried, ascending cell index.
ScoreOf(c, move) ==
  c.scores[Cardinality({i \in EmptyCells(c.pre) : i <= move})]

\* C1: for every position of the alternating play, every depth and either
\* value of is_maximizing, alphabeta with the window (-inf, +inf) returns the
\* value minimax returns with the same arguments.
C1_AlphabetaEqualsMinimax ==
  (call.op = "alphabeta" /\ call.pre = call.ref.pre) => call.ret = call.ref.ret

\* A minimizing alphabeta call at depth 1 that took a cutoff and agrees.
C1_Witness ==
  /\ call.op = "alphabeta"
  /\ call.pre = call.ref.pre
  /\ call.depth = 1
  /\ ~call.is_maximizing
  /\ call.cuts > 0
  /\ call.ret = call.ref.ret

\* C2: when minimax, alphabeta or get_best_move returns, all 9 cells hold what
\* they held when the call was entered, after a cutoff and at terminal boards too.
C2_SearchRestoresBoard ==
  call.op \in Searches => board = call.pre

\* An alphabeta call that left a loop by break and returned the board intact.
C2_Witness ==
  /\ call.op = "alphabeta"
  /\ call.cuts > 0
  /\ call.calls > 1
  /\ board = call.pre

\* C3: on a position where nobody has won, AI is to move and some empty cell
\* completes an AI line, get_best_move returns the lowest such cell.
C3_TakesLowestWinningCell ==
  (/\ call.op = "get_best_move"
   /\ turn = AI
   /\ NobodyWon(call.pre)
   /\ WinningCells(call.pre, AI) # {})
  => call.ret = Least(WinningCells(call.pre, AI))

\* Two winning cells, and an empty cell below the one returned.
C3_Witness ==
  /\ call.op = "get_best_move"
  /\ turn = AI
  /\ NobodyWon(call.pre)
  /\ Cardinality(WinningCells(call.pre, AI)) >= 2
  /\ call.ret = Least(WinningCells(call.pre, AI))
  /\ \E i \in EmptyCells(call.pre) : i < call.ret

\* C4 as stated: the move that wins at once is scored 10 - depth with
\* depth = 1, that is 9.
C4_WinningMoveScoresNine ==
  (call.op = "get_best_move" /\ NobodyWon(call.pre))
  => \A w \in WinningCells(call.pre, AI) : ScoreOf(call, w) = 9

\* C4 as amended: the move that wins at once is scored 10 - depth with
\* depth = 0, that is 10, with either search.
C4_WinningMoveScoresTen ==
  (call.op = "get_best_move" /\ NobodyWon(call.pre))
  => \A w \in WinningCells(call.pre, AI) : ScoreOf(call, w) = 10

\* A pruning get_best_move that returned a cell winning at once, scored 10.
C4_Witness ==
  /\ call.op = "get_best_move"
  /\ call.use_ab_pruning
  /\ NobodyWon(call.pre)
  /\ call.ret \in WinningCells(call.pre, AI)
  /\ ScoreOf(call, call.ret) = 10

\* C5: on a position where nobody has won, AI is to move, AI has no cell that
\* wins at once and exactly one empty cell completes a Human line,
\* get_best_move returns that cell, and every other move is scored -9 (the
\* loss at the next ply), which is at most the score of the blocking move.
C5_BlocksTheOnlyThreat ==
  (/\ call.op = "get_best_move"
   /\ turn = AI
   /\ NobodyWon(call.pre)
   /\ WinningCells(call.pre, AI) = {}
   /\ Cardinality(WinningCells(call.pre, HUMAN)) = 1)
  => /\ WinningCells(call.pre, HUMAN) = {call.ret}
     /\ \A m \in EmptyCells(call.pre) \ {call.ret} :
          /\ ScoreOf(call, m) = -9
          /\ ScoreOf(call, m) <= ScoreOf(call, call.ret)

\* A block chosen among at least three empty cells.
C5_Witness ==
  /\ call.op = "get_best_move"
  /\ turn = AI
  /\ NobodyWon(call.pre)
  /\ WinningCells(call.pre, AI) = {}
  /\ WinningCells(call.pre, HUMAN) = {call.ret}
  /\ Cardinality(EmptyCells(call.pre)) >= 3
  /\ ScoreOf(call, call.ret) > -9

\* C6: on the empty board get_best_move returns the first move, by index, whose
\* score is the maximum over the 9 opening moves, so 0 when move 0 ties the
\* maximum, and the same index with and without pruning.
C6_OpeningMoveIsFirstMaximum ==
  (call.op = "get_best_move" /\ call.pre = EmptyBoard)
  => /\ Len(call.scores) = 9
     /\ call.ret + 1 = Least({k \in 1..9 : call.scores[k]
                                = Greatest({call.scores[j] : j \in 1..9})})
     /\ (call.scores[1] = Greatest({call.scores[j] : j \in 1..9}) => call.ret = 0)
     /\ call.ret = get_best_move(EmptyBoard, ~call.use_ab_pruning).ret

\* The opening search has returned cell 0, whose score ties the maximum.
C6_Witness ==
  /\ call.op = "get_best_move"
  /\ call.pre = EmptyBoard
  /\ call.ret = 0
  /\ \A j \in 1..9 : call.scores[j] <= call.scores[1]
  /\ \E j \in 2..9 : call.scores[j] = call.scores[1]

\* C7: make_move on a cell that is not Empty returns False and leaves the 9
\* cells as they were; on an Empty cell it returns True and changes that cell
\* alone, to the player's mark.
C7_MakeMoveFrame ==
  call.op = "make_move"
  => IF call.pre[call.position] # EMPTY
     THEN call.ret = FALSE /\ board = call.pre
     ELSE /\ call.ret = TRUE
          /\ board[call.position] = call.player
          /\ \A i \in Cells \ {call.position} : board[i] = call.pre[i]

\* A move refused on a cell that holds the other player's mark.
C7_Witness ==
  /\ call.op = "make_move"
  /\ call.ret = FALSE
  /\ call.pre[call.position] = Other(call.player)
  /\ board = call.pre

\* C8: on every position of the alternating play, alphabeta with the window
\* (-inf, +inf) makes at most as many invocations as minimax makes with the
\* same depth and is_maximizing.
C8_AlphabetaVisitsNoMore ==
  (call.op = "alphabeta" /\ call.pre = call.ref.pre)
  => call.calls <= call.ref.calls

\* A position on which pruning saved invocations.
C8_Witness ==
  /\ call.op = "alphabeta"
  /\ call.pre = call.ref.pre
  /\ call.calls < call.ref.calls
  /\ call.is_maximizing

\* C9: get_best_move returns None exactly when the board has no Empty cell;
\* otherwise, won board or not, it returns a cell that is Empty.
C9_NoneIffBoardFull ==
  call.op = "get_best_move"
  => /\ call.ret = None <=> EmptyCells(call.pre) = {}
     /\ call.ret # None => call.ret \in EmptyCells(call.pre)

\* A board Human has already won, with a spare cell, still gets a cell.
C9_Witness ==
  /\ call.op = "get_best_move"
  /\ is_winner(call.pre, HUMAN)
  /\ EmptyCells(call.pre) # {}
  /\ call.ret \in EmptyCells(call.pre)

\* C10: in a game from the empty board, either side first, Human playing any
\* legal move and AI the cell get_best_move returns, Human never completes a
\* line; every AI turn places a mark, so each move fills one more cell and the
\* game is over (AI win or draw) after at most 9 moves.
C10_AINeverLoses ==
  /\ ~is_winner(board, HUMAN)
  /\ call.op = "get_best_move" => call.placed
  /\ ~game_over(board) => EmptyCells(board) # {}

\* A game Human opened, which the AI won by a plain minimax move.
C10_Witness ==
  /\ is_winner(board, AI)
  /\ call.op = "get_best_move"
  /\ ~call.use_ab_pruning
  /\ Cardinality(EmptyCells(board)) + 1 = Cardinality(EmptyCells(call.pre))
  /\ Cardinality({i \in Cells : board[i] = HUMAN})
       = Cardinality({i \in Cells : board[i] = AI})

====
